---- MODULE Spec2Model ----
\* Model of src/main.py: the Diffbot profile ingest (extract_tech, ingest,
\* import_diffbot_list) against a Neo4j store modelled as a property graph
\* with MERGE semantics.
EXTENDS Integers, Sequences, FiniteSets, TLC

VARIABLES
    pc,          \* per request: position of import_diffbot_list / ingest
    payload,     \* per request: request.get_json()
    tenant_id,   \* the resolved tenant identifier (query argument or TENANT_ID)
    results,     \* per request: the `results` list of import_diffbot_list
    log,         \* per request, per item: the steps of ingest that ran, with outcome
    snaps,       \* per request, per item: the store as it was when the item ended
    response,    \* per request: the value returned by import_diffbot_list
    graph,       \* the store
    graph0,      \* the store before the requests
    faults,      \* number of store faults injected so far
    sentence,    \* argument of extract_tech (extractor specification)
    reply,       \* the decoded content the model returned (extractor specification)
    extracted    \* what extract_tech returned or raised (extractor specification)

vars == <<pc, payload, tenant_id, results, log, snaps, response, graph, graph0,
          faults, sentence, reply, extracted>>

\* ---------------------------------------------------------------- bounds
MaxBatch == 2
MaxFaults == 1
MaxKeys == 2
MaxItems == 2

NULL == "None"
Procs == {1, 2}

\* The sequences over S of length at most n.
SeqUpTo(S, n) == UNION {[1..k -> S] : k \in 0..n}

RECURSIVE SeqToSet(_)
SeqToSet(s) == IF s = <<>> THEN {} ELSE {Head(s)} \cup SeqToSet(Tail(s))

\* ------------------------------------------------------------ extract_tech
\* A decoded JSON element of a list: a string or a number.
JLeaf(t, s) == [t |-> t, s |-> s]
JStrLeaf(s) == JLeaf("str", s)
Leaves == {JStrLeaf("X"), JStrLeaf("Y"), JLeaf("num", "1")}

\* A decoded JSON value stored under a key of the returned object. `items` is
\* what Python iteration over the value yields: the elements of a list, the
\* characters of a string, the keys of a dict; a number or null is not iterable.
JValue(t, items) == [t |-> t, items |-> items]
JList(items) == JValue("list", items)
Values ==
    {JList(s) : s \in SeqUpTo(Leaves, MaxItems)}
      \cup {JValue("str", <<JStrLeaf("a"), JStrLeaf("b")>>),
            JValue("dict", <<JStrLeaf("k")>>),
            JValue("num", <<>>),
            JValue("null", <<>>)}

\* The decoded message content: an object (its values, in key order), a list,
\* a bare string or number, or text that json.loads rejects.
JReply(t, vals, items) == [t |-> t, vals |-> vals, items |-> items]
JObject(vals) == JReply("dict", vals, <<>>)
Replies ==
    {JObject(v) : v \in SeqUpTo(Values, MaxKeys)}
      \cup {JReply("list", <<>>, s) : s \in SeqUpTo(Leaves, MaxItems)}
      \cup {JReply("str", <<>>, <<>>), JReply("num", <<>>, <<>>),
            JReply("invalid", <<>>, <<>>)}

Returned(val) == [ok |-> TRUE, val |-> val, err |-> ""]
Raised(err) == [ok |-> FALSE, val |-> <<>>, err |-> err]

\* isinstance(item, str) for item in seq
AllStr(items) == \A i \in 1..Len(items) : items[i].t = "str"
Iterable(v) == v.t \in {"list", "str", "dict"}

\* line 122: not isinstance(a_list, list) and not all(isinstance(item, str) ...)
\* The right operand is evaluated only for a non-list, and iterates it.
SkipsValue(v) == v.t # "list" /\ ~AllStr(v.items)

\* lines 116-133: the loop over the keys of the returned object. Iterating a
\* number or null in the condition of line 122 raises TypeError; whatever is
\* not skipped is passed to aggregate.extend.
RECURSIVE Aggregate(_, _)
Aggregate(vals, acc) ==
    IF vals = <<>> THEN Returned(acc)
    ELSE LET v == Head(vals) IN
         IF v.t # "list" /\ ~Iterable(v) THEN Raised("TypeError")
         ELSE IF SkipsValue(v) THEN Aggregate(Tail(vals), acc)
         ELSE Aggregate(Tail(vals), acc \o v.items)

\* str.strip() of the sentences of the model.
Strip(s) == IF s \in {"", " "} THEN "" ELSE s

RECURSIVE Strings(_)
Strings(items) ==
    IF items = <<>> THEN <<>> ELSE <<Head(items).s>> \o Strings(Tail(items))

\* lines 81-144, given the content the model returned for the sentence.
ExtractTech(s, r) ==
    IF s = NULL \/ s = "" \/ Strip(s) = "" THEN Returned(<<>>)
    ELSE IF r.t = "invalid" THEN Raised("JSONDecodeError")
    ELSE LET agg == IF r.t = "dict" THEN Aggregate(r.vals, <<>>)
                    ELSE Returned(r.items)
             isList == r.t \in {"dict", "list"}
         IN  IF ~agg.ok THEN agg
             ELSE IF ~isList \/ ~AllStr(agg.val) THEN Raised("ValueError")
             ELSE Returned(Strings(agg.val))

\* The content the model returns for each free text of the profiles below
\* (temperature 0: the same text gets the same content).
LLM(text) ==
    CASE text = "Python, Go" ->
           JObject(<<JList(<<JStrLeaf("Python"), JStrLeaf("Go")>>)>>)
      [] text = "Built services in Rust" ->
           JObject(<<JList(<<JStrLeaf("Rust")>>)>>)
      [] text = "Rust Developer" ->
           JObject(<<JList(<<JStrLeaf("Rust")>>), JList(<<JStrLeaf("Rust")>>)>>)
      [] text = "garbled" -> JReply("str", <<>>, <<>>)
      [] OTHER -> JObject(<<JList(<<>>)>>)

\* extract_tech(sentence) as ingest calls it.
Classify(text) == ExtractTech(text, LLM(text))

\* ------------------------------------------------------------ the documents
Name(present, firstName) == [present |-> present, firstName |-> firstName]
Employer(present, name) == [present |-> present, name |-> name]
Employment(employer, description, title) ==
    [employer |-> employer, description |-> description, title |-> title]
Entity(uri, nameDetail, description, summary, employments) ==
    [diffbotUri |-> uri, nameDetail |-> nameDetail, description |-> description,
     summary |-> summary, employments |-> employments]

\* An element of the payload: isDict (line 431), valid (DiffBotData(**item)
\* passes pydantic validation), and the parsed data list.
Item(isDict, valid, data) == [isDict |-> isDict, valid |-> valid, data |-> data]
Doc(entity) == Item(TRUE, TRUE, <<entity>>)

DocAnn ==
    Doc(Entity("u1", Name(TRUE, "Ann"), "Python, Go", "Python, Go", <<>>))
DocBob ==
    Doc(Entity("u2", Name(TRUE, "Bob"), NULL, NULL,
        <<Employment(Employer(TRUE, "Acme Corp"), "Built services in Rust",
                     "Backend Engineer"),
          Employment(Employer(TRUE, "Acme Corp"), " ", "Rust Developer")>>))
DocNoUri ==
    Doc(Entity(NULL, Name(TRUE, "Cy"), NULL, NULL, <<>>))
DocNoName ==
    Doc(Entity("u1", Name(FALSE, NULL), "Python, Go", NULL, <<>>))
DocGarbled ==
    Doc(Entity("u1", Name(TRUE, "Ann"), "garbled", NULL, <<>>))
DocNoEmployer ==
    Doc(Entity("u2", Name(TRUE, "Bob"), NULL, NULL,
        <<Employment(Employer(FALSE, NULL), "Built services in Rust",
                     "Backend Engineer")>>))
DocNoData == Item(TRUE, TRUE, <<>>)
DocInvalid == Item(TRUE, FALSE, <<>>)
NotADict == Item(FALSE, FALSE, <<>>)

Dicts == {DocAnn, DocBob, DocNoUri, DocNoName, DocGarbled, DocNoEmployer,
          DocNoData, DocInvalid}

\* request.get_json(silent=True): a list of elements, or something else.
Payload(isList, items) == [isList |-> isList, items |-> items]
Payloads ==
    {Payload(TRUE, s) : s \in SeqUpTo(Dicts, MaxBatch)}
      \cup {Payload(TRUE, <<NotADict>>), Payload(FALSE, <<>>)}

Tenants == {"acme", NULL}

\* ---------------------------------------------------------------- the store
\* A property graph: how many nodes carry each (label, key), the properties
\* of the node of each (label, key), how many relationships join each
\* (source, type, target).
Node(label, key) == [label |-> label, key |-> key]
Rel(src, type, dst) == [src |-> src, type |-> type, dst |-> dst]
EmptyFn == [x \in {} |-> 0]
EmptyGraph == [nodes |-> EmptyFn, props |-> EmptyFn, rels |-> EmptyFn]

CreateNode(g, n, pr) ==
    [nodes |-> (n :> (IF n \in DOMAIN g.nodes THEN g.nodes[n] + 1 ELSE 1)) @@ g.nodes,
     props |-> (n :> pr) @@ g.props,
     rels |-> g.rels]
\* MERGE (x:Label {key: k}) ON CREATE SET ...
MergeNode(g, n, pr) ==
    IF n \in DOMAIN g.nodes THEN g
    ELSE [nodes |-> (n :> 1) @@ g.nodes, props |-> (n :> pr) @@ g.props,
          rels |-> g.rels]

CreateRel(g, r) ==
    IF r.src \in DOMAIN g.nodes /\ r.dst \in DOMAIN g.nodes
    THEN [g EXCEPT !.rels =
            (r :> (IF r \in DOMAIN g.rels THEN g.rels[r] + 1 ELSE 1)) @@ g.rels]
    ELSE g
\* MATCH (a ...), (b ...) MERGE (a)-[:TYPE]->(b): nothing when an endpoint
\* matches no node.
MergeRel(g, r) ==
    IF r.src \in DOMAIN g.nodes /\ r.dst \in DOMAIN g.nodes /\ r \notin DOMAIN g.rels
    THEN [g EXCEPT !.rels = (r :> 1) @@ g.rels]
    ELSE g

RECURSIVE MergeNodes(_, _, _)
MergeNodes(g, label, keys) ==
    IF keys = <<>> THEN g
    ELSE MergeNodes(MergeNode(g, Node(label, Head(keys)), <<>>), label, Tail(keys))

RECURSIVE MergeRels(_, _)
MergeRels(g, rs) ==
    IF rs = <<>> THEN g ELSE MergeRels(MergeRel(g, Head(rs)), Tail(rs))

\* ------------------------------------------------------------------ ingest
Steps == <<"tenant", "user", "attended", "user_tech", "knows", "employer_role",
           "tech", "employer_uses", "role_uses", "employed_at", "was">>
NodeSteps == {"tenant", "user", "user_tech", "employer_role", "tech"}
RelSteps == {"attended", "knows", "employer_uses", "role_uses", "employed_at", "was"}

StepIndex(step) == CHOOSE i \in 1..Len(Steps) : Steps[i] = step
NextStep(step) ==
    IF StepIndex(step) = Len(Steps) THEN "return" ELSE Steps[StepIndex(step) + 1]

ErrorMessage(step) ==
    CASE step = "tenant" -> "Error creating tenant node"
      [] step = "user" -> "Error creating user node"
      [] step = "attended" -> "Error creating user-tenant relationship"
      [] step = "user_tech" -> "Error creating user_tech nodes"
      [] step = "knows" -> "Error creating user-topic relationships"
      [] step = "employer_role" -> "Error creating employer nodes"
      [] step = "tech" -> "Error creating tech nodes"
      [] step = "employer_uses" -> "Error creating tech-employer relationships"
      [] step = "role_uses" -> "Error creating tech-title relationships"
      [] step = "employed_at" -> "Error creating employment relationships"
      [] step = "was" -> "Error creating role relationships"

\* The per-record entries of `results`: the tuple ingest returns, or the bare
\* string of line 445.
Result(kind, msg, arg, code) == [kind |-> kind, msg |-> msg, arg |-> arg, code |-> code]
Success(firstName) == Result("tuple", "Successfully processed", firstName, 200)
ErrorResultOk(step) == Result("tuple", ErrorMessage(step), "", 200)
ErrorResult(step) == Result("tuple", ErrorMessage(step), "", 500)
InvalidPayload(e) == Result("str", "Invalid payload", e, 0)

\* dbd.data[0].entity
HasEntity(item) == Len(item.data) > 0
EntityOf(item) == item.data[1]

\* lines 268-278: employer_tech and title_tech
RECURSIVE EmployerTech(_)
EmployerTech(emps) ==
    IF emps = <<>> THEN <<>>
    ELSE (IF Head(emps).employer.present
          THEN <<[key |-> Head(emps).employer.name,
                  tech |-> Classify(Head(emps).description)]>>
          ELSE <<>>) \o EmployerTech(Tail(emps))
RECURSIVE TitleTech(_)
TitleTech(emps) ==
    IF emps = <<>> THEN <<>>
    ELSE <<[key |-> Head(emps).title, tech |-> Classify(Head(emps).title)]>>
           \o TitleTech(Tail(emps))

RECURSIVE FirstError(_)
FirstError(pairs) ==
    IF pairs = <<>> THEN ""
    ELSE IF ~Head(pairs).tech.ok THEN Head(pairs).tech.err
    ELSE FirstError(Tail(pairs))

\* lines 281-285 and 293: list(unique_tech_topics), in some order
RECURSIVE TechOf(_)
TechOf(pairs) ==
    IF pairs = <<>> THEN {} ELSE SeqToSet(Head(pairs).tech.val) \cup TechOf(Tail(pairs))
RECURSIVE SetToSeq(_)
SetToSeq(S) ==
    IF S = {} THEN <<>>
    ELSE LET x == CHOOSE y \in S : TRUE IN <<x>> \o SetToSeq(S \ {x})
UniqueTechTopics(e) ==
    SetToSeq(TechOf(EmployerTech(e.employments)) \cup TechOf(TitleTech(e.employments)))

\* What is raised while a step builds its parameters, before its
\* execute_query ("" when nothing is): lines 184-185, 219, 268-278.
Prepare(step, item) ==
    CASE step = "user" ->
           IF ~HasEntity(item) THEN "IndexError"
           ELSE IF ~EntityOf(item).nameDetail.present THEN "AttributeError"
           ELSE ""
      [] step = "user_tech" -> Classify(EntityOf(item).description).err
      [] step = "tech" ->
           LET et == FirstError(EmployerTech(EntityOf(item).employments)) IN
           IF et # "" THEN et ELSE FirstError(TitleTech(EntityOf(item).employments))
      [] OTHER -> ""

\* MERGE on a null property value: the store rejects the statement.
RejectsEmployment(emp) ==
    ~emp.employer.present \/ emp.employer.name = NULL \/ emp.title = NULL
StoreRejects(step, item, tenant) ==
    CASE step = "tenant" -> tenant = NULL
      [] step = "user" -> EntityOf(item).diffbotUri = NULL
      [] step = "employer_role" ->
           \E i \in 1..Len(EntityOf(item).employments) :
               RejectsEmployment(EntityOf(item).employments[i])
      [] OTHER -> FALSE

\* lines 252-257
RECURSIVE MergeEmployments(_, _)
MergeEmployments(g, emps) ==
    IF emps = <<>> THEN g
    ELSE MergeEmployments(
           MergeNode(MergeNode(g, Node("Employer", Head(emps).employer.name),
                                <<Head(emps).description>>),
                     Node("Role", Head(emps).title), <<>>),
           Tail(emps))

\* The relationships a statement merges, row by row.
RECURSIVE RelsTo(_, _, _)
RelsTo(src, type, dsts) ==
    IF dsts = <<>> THEN <<>>
    ELSE <<Rel(src, type, Head(dsts))>> \o RelsTo(src, type, Tail(dsts))
RECURSIVE NodesOf(_, _)
NodesOf(label, keys) ==
    IF keys = <<>> THEN <<>> ELSE <<Node(label, Head(keys))>> \o NodesOf(label, Tail(keys))
RECURSIVE Uses(_, _)
Uses(label, pairs) ==
    IF pairs = <<>> THEN <<>>
    ELSE RelsTo(Node(label, Head(pairs).key), "USES", NodesOf("Tech", Head(pairs).tech.val))
           \o Uses(label, Tail(pairs))
RECURSIVE EmployerNames(_)
EmployerNames(emps) ==
    IF emps = <<>> THEN <<>> ELSE <<Head(emps).employer.name>> \o EmployerNames(Tail(emps))
RECURSIVE Titles(_)
Titles(emps) ==
    IF emps = <<>> THEN <<>> ELSE <<Head(emps).title>> \o Titles(Tail(emps))

\* The label the KNOWS statement matches its target on (line 237).
KnowsLabel == "TEch"

\* The relationships each relationship statement matches and merges.
RelsOf(step, e, tenant) ==
    LET u == Node("User", e.diffbotUri) IN
    CASE step = "attended" -> <<Rel(u, "ATTENDED", Node("Tenant", tenant))>>
      [] step = "knows" ->
           RelsTo(u, "KNOWS", NodesOf(KnowsLabel, Classify(e.description).val))
      [] step = "employer_uses" -> Uses("Employer", EmployerTech(e.employments))
      [] step = "role_uses" -> Uses("Role", TitleTech(e.employments))
      [] step = "employed_at" ->
           RelsTo(u, "EMPLOYED_AT", NodesOf("Employer", EmployerNames(e.employments)))
      [] step = "was" -> RelsTo(u, "WAS", NodesOf("Role", Titles(e.employments)))
      [] OTHER -> <<>>

\* The store after the statement of a step ran without error.
Effect(step, g, item, tenant) ==
    CASE step = "tenant" -> MergeNode(g, Node("Tenant", tenant), <<"created_at">>)
      [] step = "user" ->
           MergeNode(g, Node("User", EntityOf(item).diffbotUri),
                     <<EntityOf(item).nameDetail.firstName, EntityOf(item).summary>>)
      [] step = "user_tech" ->
           MergeNodes(g, "Tech", Classify(EntityOf(item).description).val)
      [] step = "employer_role" -> MergeEmployments(g, EntityOf(item).employments)
      [] step = "tech" -> MergeNodes(g, "Tech", UniqueTechTopics(EntityOf(item)))
      [] OTHER -> MergeRels(g, RelsOf(step, EntityOf(item), tenant))

\* What a step's except clauses do with a store outcome.
\* lines 164-168 and 190-194: ConstraintValidationFailed passes, for the
\* tenant and the user statement only.
Swallows(step) == step \in {"tenant", "user"}
Proceeds(step, out) == out = "ok" \/ (out = "constraint" /\ Swallows(step))

AfterWriteFailureContinue(step) == NextStep(step)
\* Every failing step returns its message with 500 (lines 172-175, 198-201,
\* 216, 231, 249, 265, 299, 316, 333, 350, 367).
AfterWriteFailure(step) == "return"

\* ------------------------------------------------------ import_diffbot_list
ItemIndex(p) == Len(log[p])
CurrentItem(p) == payload[p].items[ItemIndex(p)]
MoreItems(p) == Len(results[p]) + 1 < Len(payload[p].items)
Continue(p) == IF MoreItems(p) THEN "item" ELSE "respond"

OnExceptionBreak(p) == "respond"
\* lines 444-445: the entry is appended and the loop goes on.
OnException(p) == Continue(p)

Reply(status, body) == [status |-> status, body |-> body]
NoReply == Reply(0, "")

Logged(p, step, out) ==
    [log EXCEPT ![p][ItemIndex(p)] = Append(@, [step |-> step, out |-> out])]

\* The item ends with entry `res`, the store being g.
EndItem(p, res, g, next) ==
    /\ results' = [results EXCEPT ![p] = Append(@, res)]
    /\ snaps' = [snaps EXCEPT ![p] = Append(@, g)]
    /\ pc' = [pc EXCEPT ![p] = next]

\* The outcomes of one execute_query: it runs, or the store raises a
\* constraint violation or another error.
Outcomes(step, item) ==
    IF StoreRejects(step, item, tenant_id) THEN {"error"}
    ELSE {"ok"} \cup (IF faults < MaxFaults
                      THEN {"error"} \cup (IF step \in NodeSteps THEN {"constraint"} ELSE {})
                      ELSE {})

\* The store after one execute_query. A statement that raises is rolled back.
\* A constraint violation means that a concurrent transaction has just created
\* a node with the key: the nodes the statement merges are then in the store,
\* created by that transaction.
StoreAfter(step, out, g, item, tenant) ==
    IF out \in {"ok", "constraint"} THEN Effect(step, g, item, tenant) ELSE g

\* lines 412-426
Authenticate(p) ==
    /\ pc[p] = "auth"
    /\ \E a \in {"ok", "missing", "unauthorized", "undecodable"} :
         /\ pc' = [pc EXCEPT ![p] = IF a = "ok" THEN "payload" ELSE "done"]
         /\ response' = [response EXCEPT ![p] =
              CASE a = "ok" -> @
                [] a = "missing" -> Reply(401, "Missing authorization credentials")
                [] a = "unauthorized" -> Reply(401, "Unauthorized")
                [] a = "undecodable" -> Reply(400, "Problem with Authorization credentials")]
    /\ UNCHANGED <<payload, tenant_id, results, log, snaps, graph, graph0, faults,
                   sentence, reply, extracted>>

\* lines 428-436
CheckPayload(p) ==
    /\ pc[p] = "payload"
    /\ IF ~payload[p].isList
          \/ \E i \in 1..Len(payload[p].items) : ~payload[p].items[i].isDict
       THEN /\ pc' = [pc EXCEPT ![p] = "done"]
            /\ response' = [response EXCEPT ![p] =
                 Reply(400, "Invalid payload: expected a list of dictionaries")]
       ELSE /\ pc' = [pc EXCEPT ![p] =
                 IF Len(payload[p].items) = 0 THEN "respond" ELSE "item"]
            /\ UNCHANGED response
    /\ UNCHANGED <<payload, tenant_id, results, log, snaps, graph, graph0, faults,
                   sentence, reply, extracted>>

\* lines 436-445: the next item of the loop, DiffBotData(**item)
ParseItem(p) ==
    /\ pc[p] = "item"
    /\ LET item == payload[p].items[Len(results[p]) + 1] IN
       /\ log' = [log EXCEPT ![p] = Append(@, <<>>)]
       /\ IF item.valid
          THEN /\ pc' = [pc EXCEPT ![p] = Steps[1]]
               /\ UNCHANGED <<results, snaps>>
          ELSE EndItem(p, InvalidPayload("ValidationError"), graph, OnException(p))
    /\ UNCHANGED <<payload, tenant_id, response, graph, graph0, faults,
                   sentence, reply, extracted>>

\* One step of ingest: its parameters, its execute_query, its except clauses.
IngestStep(p, step) ==
    /\ pc[p] = step
    /\ LET item == CurrentItem(p)
           e == Prepare(step, item)
       IN  IF e # ""
           THEN /\ log' = Logged(p, step, "raised")
                /\ EndItem(p, InvalidPayload(e), graph, OnException(p))
                /\ UNCHANGED <<graph, faults>>
           ELSE \E out \in Outcomes(step, item) :
                  LET g == StoreAfter(step, out, graph, item, tenant_id)
                      next == IF Proceeds(step, out) THEN NextStep(step)
                              ELSE AfterWriteFailure(step)
                  IN  /\ graph' = g
                      /\ faults' = IF out = "ok" \/ StoreRejects(step, item, tenant_id)
                                   THEN faults ELSE faults + 1
                      /\ log' = Logged(p, step, out)
                      /\ IF next = "return"
                         THEN EndItem(p,
                                IF Proceeds(step, out)
                                THEN Success(EntityOf(item).nameDetail.firstName)
                                ELSE ErrorResult(step),
                                g, Continue(p))
                         ELSE /\ pc' = [pc EXCEPT ![p] = next]
                              /\ UNCHANGED <<results, snaps>>
    /\ UNCHANGED <<payload, tenant_id, response, graph0, sentence, reply, extracted>>

CreateTenant(p) == IngestStep(p, "tenant")               \* lines 156-175
CreateUser(p) == IngestStep(p, "user")                   \* lines 177-201
CreateAttended(p) == IngestStep(p, "attended")           \* lines 203-216
CreateUserTech(p) == IngestStep(p, "user_tech")          \* lines 218-231
CreateKnows(p) == IngestStep(p, "knows")                 \* lines 234-249
CreateEmployerRole(p) == IngestStep(p, "employer_role")  \* lines 251-265
CreateTech(p) == IngestStep(p, "tech")                   \* lines 267-299
CreateEmployerUses(p) == IngestStep(p, "employer_uses")  \* lines 302-316
CreateRoleUses(p) == IngestStep(p, "role_uses")          \* lines 319-333
CreateEmployedAt(p) == IngestStep(p, "employed_at")      \* lines 335-350
CreateWas(p) == IngestStep(p, "was")                     \* lines 352-370

\* line 447
Respond(p) ==
    /\ pc[p] = "respond"
    /\ pc' = [pc EXCEPT ![p] = "done"]
    /\ response' = [response EXCEPT ![p] = Reply(200, "results")]
    /\ UNCHANGED <<payload, tenant_id, results, log, snaps, graph, graph0, faults,
                   sentence, reply, extracted>>

\* A store that already holds a user, an employer and a technology.
GraphOld ==
    MergeNode(MergeNode(MergeNode(EmptyGraph,
        Node("User", "u1"), <<"Anna", "earlier summary">>),
        Node("Employer", "Acme Corp"), <<"earlier description">>),
        Node("Tech", "Go"), <<>>)
Graphs == {EmptyGraph, GraphOld}

Idle == Payload(FALSE, <<>>)

InitCommon ==
    /\ results = [p \in Procs |-> <<>>]
    /\ log = [p \in Procs |-> <<>>]
    /\ snaps = [p \in Procs |-> <<>>]
    /\ response = [p \in Procs |-> NoReply]
    /\ tenant_id \in Tenants
    /\ graph0 \in Graphs
    /\ graph = graph0
    /\ faults = 0
    /\ sentence = NULL
    /\ reply = JObject(<<>>)
    /\ extracted = Raised("not called")

\* One request.
Init ==
    /\ InitCommon
    /\ pc = [p \in Procs |-> IF p = 1 THEN "auth" ELSE "idle"]
    /\ \E q \in Payloads : payload = [p \in Procs |-> IF p = 1 THEN q ELSE Idle]

Next ==
    \E p \in Procs :
        \/ Authenticate(p)
        \/ CheckPayload(p)
        \/ ParseItem(p)
        \/ CreateTenant(p)
        \/ CreateUser(p)
        \/ CreateAttended(p)
        \/ CreateUserTech(p)
        \/ CreateKnows(p)
        \/ CreateEmployerRole(p)
        \/ CreateTech(p)
        \/ CreateEmployerUses(p)
        \/ CreateRoleUses(p)
        \/ CreateEmployedAt(p)
        \/ CreateWas(p)
        \/ Respond(p)

Spec == Init /\ [][Next]_vars

\* Two requests at once, each carrying the same single document.
InitConcurrent ==
    /\ InitCommon
    /\ pc = [p \in Procs |-> "auth"]
    /\ \E d \in Dicts : payload = [p \in Procs |-> Payload(TRUE, <<d>>)]

SpecConcurrent == InitConcurrent /\ [][Next]_vars

\* extract_tech alone, over the contents the model may return.
Sentences == {"", " ", "NextJS + Django"}

InitExtract ==
    /\ pc = [p \in Procs |-> "idle"]
    /\ payload = [p \in Procs |-> Idle]
    /\ results = [p \in Procs |-> <<>>]
    /\ log = [p \in Procs |-> <<>>]
    /\ snaps = [p \in Procs |-> <<>>]
    /\ response = [p \in Procs |-> NoReply]
    /\ tenant_id = NULL
    /\ graph0 = EmptyGraph
    /\ graph = EmptyGraph
    /\ faults = 0
    /\ sentence \in Sentences \cup {NULL}
    /\ reply \in Replies
    /\ extracted = Raised("not called")

Extract ==
    /\ extracted = Raised("not called")
    /\ extracted' = ExtractTech(sentence, reply)
    /\ UNCHANGED <<pc, payload, tenant_id, results, log, snaps, response, graph,
                   graph0, faults, sentence, reply>>

NextExtract == Extract

SpecExtract == InitExtract /\ [][NextExtract]_vars

\* ================================================================ the claims
Started(p) == 1..Len(log[p])
Completed(p) == 1..Len(results[p])
ItemAt(p, i) == payload[p].items[i]
\* A store write that failed and was not a swallowed constraint conflict.
WriteFailed(en) ==
    en.out = "error" \/ (en.out = "constraint" /\ en.step \notin {"tenant", "user"})
\* An extraction call that raised.
ExtractionFailed(en) == en.out = "raised" /\ en.step \in {"user_tech", "tech"}
StepsLogged(l) == {l[k].step : k \in 1..Len(l)}
LastFailed(l) == Len(l) > 0 /\ WriteFailed(l[Len(l)])
NoDuplicates(g) ==
    /\ \A n \in DOMAIN g.nodes : g.nodes[n] = 1
    /\ \A r \in DOMAIN g.rels : g.rels[r] = 1

\* C1 (as stated): when a write step of an ingest fails, every later step of
\* the fixed sequence is still executed.
C1_LaterStepsStillRun ==
    \A p \in Procs : \A i \in Completed(p) : \A k \in 1..Len(log[p][i]) :
        WriteFailed(log[p][i][k]) =>
            \A j \in (StepIndex(log[p][i][k].step) + 1)..Len(Steps) :
                Steps[j] \in StepsLogged(log[p][i])

\* C1 (amended): when a write step of an ingest fails, the ingest ends there:
\* the failing step is the last step executed for the document, the steps
\* before it are exactly the earlier steps of the sequence, and the record's
\* result is that step's error message with status 500.
C1_FailureEndsIngest ==
    \A p \in Procs : \A i \in Started(p) : \A k \in 1..Len(log[p][i]) :
        /\ log[p][i][k].step = Steps[k]
        /\ WriteFailed(log[p][i][k]) =>
             /\ k = Len(log[p][i])
             /\ i \in Completed(p)
             /\ results[p][i].kind = "tuple"
             /\ results[p][i].msg = ErrorMessage(Steps[k])
             /\ results[p][i].code = 500

\* C1 witness: an ingest ended by a failed write in the middle of the sequence.
C1_Witness ==
    \E p \in Procs : \E i \in Completed(p) :
        /\ LastFailed(log[p][i])
        /\ Len(log[p][i]) > 2
        /\ Len(log[p][i]) < Len(Steps)

\* C2 (as stated): a document without its identifier or its name fails with a
\* validation error and no statement is executed against the store for it
\* (stated here for a tenant that is set and a store that raises nothing of
\* its own).
LacksIdentity(item) ==
    /\ item.valid
    /\ HasEntity(item)
    /\ (EntityOf(item).diffbotUri = NULL \/ ~EntityOf(item).nameDetail.present)
C2_NoWriteBeforeValidation ==
    \A p \in Procs : \A i \in Completed(p) :
        (LacksIdentity(ItemAt(p, i)) /\ tenant_id # NULL /\ faults = 0) =>
            /\ results[p][i] = InvalidPayload("ValidationError")
            /\ \A k \in 1..Len(log[p][i]) : log[p][i][k].out = "raised"

\* C3 (as stated): a constraint violation raised on a merge-by-key node write
\* (Tenant, User, Tech, Employer/Role) never makes the record a failure and
\* never stops the remaining steps.
C3_ConstraintSwallowed ==
    \A p \in Procs : \A i \in Started(p) : \A k \in 1..Len(log[p][i]) :
        (log[p][i][k].out = "constraint" /\ log[p][i][k].step \in NodeSteps) =>
            ~ /\ i \in Completed(p)
              /\ k = Len(log[p][i])
              /\ results[p][i].msg = ErrorMessage(log[p][i][k].step)

\* C4: ingesting a document a second time, right after the first and without
\* store faults, leaves the store as the first ingest left it, with one node
\* per key and one relationship per (source, type, target), and reports the
\* same result.
C4_Idempotent ==
    \A i \in 1..(Len(snaps[1]) - 1) :
        (faults = 0 /\ ItemAt(1, i) = ItemAt(1, i + 1) /\ pc[2] = "idle") =>
            /\ snaps[1][i + 1] = snaps[1][i]
            /\ NoDuplicates(snaps[1][i + 1])
            /\ results[1][i + 1] = results[1][i]

\* C4 witness: a document ingested twice with success, the store having changed.
C4_Witness ==
    /\ Len(snaps[1]) = 2
    /\ faults = 0
    /\ ItemAt(1, 1) = ItemAt(1, 2)
    /\ results[1][1].code = 200
    /\ results[1][2].code = 200
    /\ snaps[1][2] # graph0
    /\ ItemAt(1, 1) = DocBob

\* The store and the result of one ingest of `item` alone, from store g.
RECURSIVE IngestAlone(_, _, _, _)
IngestAlone(k, g, item, tenant) ==
    IF ~item.valid THEN [g |-> g, res |-> InvalidPayload("ValidationError")]
    ELSE IF k > Len(Steps)
    THEN [g |-> g, res |-> Success(EntityOf(item).nameDetail.firstName)]
    ELSE IF Prepare(Steps[k], item) # ""
    THEN [g |-> g, res |-> InvalidPayload(Prepare(Steps[k], item))]
    ELSE IF StoreRejects(Steps[k], item, tenant)
    THEN [g |-> g, res |-> ErrorResult(Steps[k])]
    ELSE IngestAlone(k + 1, Effect(Steps[k], g, item, tenant), item, tenant)

BothReturned ==
    /\ \A p \in Procs : pc[p] = "done" /\ Len(results[p]) = 1
    /\ faults = 0

C6_KnowsCreated ==
    \A p \in Procs : \A i \in Completed(p) :
        results[p][i].code = 200 =>
            LET e == EntityOf(ItemAt(p, i)) IN
            \A t \in SeqToSet(Classify(e.description).val) :
                /\ Node("Tech", t) \in DOMAIN snaps[p][i].nodes
                /\ Rel(Node("User", e.diffbotUri), "KNOWS", Node("Tech", t))
                     \in DOMAIN snaps[p][i].rels

\* The nodes the node statements executed before position k of a log upserted.
NodesMerged(step, item, tenant) ==
    IF step \in NodeSteps
    THEN DOMAIN Effect(step, EmptyGraph, item, tenant).nodes
    ELSE {}
UpsertedBefore(l, k, item, tenant) ==
    UNION {NodesMerged(l[j].step, item, tenant) :
             j \in {x \in 1..(k - 1) : l[x].out \in {"ok", "constraint"}}}

\* C7 (as stated): no relationship statement is executed before the node
\* upserts of both endpoints, for the labels and keys it matches on, have
\* been executed.
C7_EndpointsUpsertedFirst ==
    \A p \in Procs : \A i \in Started(p) : \A k \in 1..Len(log[p][i]) :
        (log[p][i][k].step \in RelSteps /\ log[p][i][k].out # "raised") =>
            \A r \in SeqToSet(RelsOf(log[p][i][k].step, EntityOf(ItemAt(p, i)), tenant_id)) :
                {r.src, r.dst} \subseteq UpsertedBefore(log[p][i], k, ItemAt(p, i), tenant_id)

AuthFailed(p) == response[p].status = 401 \/
                 response[p].body = "Problem with Authorization credentials"
ListOfDicts(q) == q.isList /\ \A i \in 1..Len(q.items) : q.items[i].isDict
AllProceeded(l) ==
    /\ Len(l) = Len(Steps)
    /\ \A k \in 1..Len(l) : l[k].out = "ok" \/ (l[k].out = "constraint" /\ l[k].step \in {"tenant", "user"})

\* C8: for a payload that is a list of dictionaries, the handler returns
\* status 200 with one entry per document, in input order: the entry of a
\* document that fails validation is its validation error, every other
\* document is ingested whatever happened to the documents before it, and a
\* document whose steps all went through reports success under its own name.
C8_OneResultPerDocument ==
    \A p \in Procs :
        /\ Len(results[p]) <= Len(payload[p].items)
        /\ (pc[p] = "done" /\ ListOfDicts(payload[p]) /\ ~AuthFailed(p)) =>
             /\ response[p] = Reply(200, "results")
             /\ Len(results[p]) = Len(payload[p].items)
             /\ Len(log[p]) = Len(payload[p].items)
             /\ \A i \in 1..Len(payload[p].items) :
                  /\ ~ItemAt(p, i).valid =>
                       results[p][i] = InvalidPayload("ValidationError") /\ log[p][i] = <<>>
                  /\ ItemAt(p, i).valid => Len(log[p][i]) > 0
                  /\ AllProceeded(log[p][i]) =>
                       results[p][i] = Success(EntityOf(ItemAt(p, i)).nameDetail.firstName)
                  /\ results[p][i].code = 200 => AllProceeded(log[p][i])

\* C8 witness: a batch whose first document failed and whose second succeeded.
C8_Witness ==
    /\ pc[1] = "done"
    /\ Len(results[1]) = 2
    /\ results[1][1].kind = "str"
    /\ results[1][2].code = 200

\* C9 (as stated): for an object reply, extract_tech returns the flat list,
\* without duplicates, of the strings of the values that are lists of
\* strings, skipping every other value, and raises nothing.
StringListsOf(vals) ==
    UNION {SeqToSet(Strings(vals[k].items)) :
             k \in {x \in 1..Len(vals) : vals[x].t = "list" /\ AllStr(vals[x].items)}}
C9_SkipsAndDeduplicates ==
    (extracted # Raised("not called") /\ reply.t = "dict"
       /\ sentence # NULL /\ Strip(sentence) # "") =>
        /\ extracted.ok
        /\ SeqToSet(extracted.val) = StringListsOf(reply.vals)
        /\ Cardinality(SeqToSet(extracted.val)) = Len(extracted.val)

StepFailed(l) == \E k \in 1..Len(l) : WriteFailed(l[k]) \/ ExtractionFailed(l[k])

\* C10 (as stated): a record with a failed step (a store write, or an
\* extraction call) is reported with a status code that is not 200, and a
\* record is reported with 200 only when no step failed.
C10_FailureStatusCode ==
    \A p \in Procs : \A i \in Completed(p) :
        /\ StepFailed(log[p][i]) =>
             results[p][i].kind = "tuple" /\ results[p][i].code # 200
        /\ (results[p][i].kind = "tuple" /\ results[p][i].code = 200) =>
             ~StepFailed(log[p][i])

\* C10 (amended): a record in which a store write failed is reported with
\* status 500; a record in which an extraction call failed is reported as a
\* bare "Invalid payload: ..." message that carries no status code; a record
\* is reported with 200 only when no step failed.
C10_FailureReported ==
    \A p \in Procs : \A i \in Completed(p) :
        /\ (\E k \in 1..Len(log[p][i]) : WriteFailed(log[p][i][k])) =>
             results[p][i].kind = "tuple" /\ results[p][i].code = 500
        /\ (\E k \in 1..Len(log[p][i]) : ExtractionFailed(log[p][i][k])) =>
             results[p][i].kind = "str" /\ results[p][i].msg = "Invalid payload"
        /\ (results[p][i].kind = "tuple" /\ results[p][i].code = 200) =>
             ~StepFailed(log[p][i]) /\ Len(log[p][i]) = Len(Steps)

\* C10 witness: a record whose extraction call failed after writes succeeded,
\* next to a record whose store write failed.
C10_Witness ==
    /\ Len(results[1]) = 2
    /\ \E k \in 1..Len(log[1][1]) : ExtractionFailed(log[1][1][k])
    /\ \E k \in 1..Len(log[1][2]) : WriteFailed(log[1][2][k])

====
